---- MODULE Spec2Model ----
(***************************************************************************)
(* A model of the pdf-writer serialization engine (src/src/lib.rs): the    *)
(* root writer PdfWriter with its byte buffer, offset table and nesting    *)
(* depth, the identifiers Ref, the scoped writers Object, Array and Dict,  *)
(* the page tree writer Pages, and the generator of the cross-reference    *)
(* table and trailer.                                                      *)
(*                                                                         *)
(* The buffer is modelled byte for byte: a text is a sequence of           *)
(* one-character strings, and every number is formatted digit by digit.    *)
(* The scoped writers borrow the PdfWriter exclusively, so the writers     *)
(* that are alive form a stack and only the innermost one can be used;     *)
(* the variable `stack` is that stack of live borrows.                     *)
(***************************************************************************)
EXTENDS Integers, Sequences, FiniteSets, TLC

(***************************************************************************)
(* Bounds of the model.                                                    *)
(***************************************************************************)
\* The number of calls in one run (end-of-scope drops are not counted).
MaxOps == 6
\* The number of calls in one run of SpecObjects and of SpecI32, whose
\* documents are sequences of objects without nested values.
MaxDocOps == 7
\* The number of calls in one run of SpecPages, of arrays and page trees.
MaxPageOps == 5
\* Identifiers are drawn from 1 .. MaxId.
MaxId == 3

(***************************************************************************)
(* Texts.                                                                  *)
(***************************************************************************)
NL == <<"\n">>
SP == <<" ">>
S_pdf == <<"%", "P", "D", "F", "-">>
S_dot == <<".">>
S_obj == <<" ", "o", "b", "j">>
S_endobj == <<"e", "n", "d", "o", "b", "j">>
S_xref == <<"x", "r", "e", "f">>
S_zero_sp == <<"0", " ">>
S_free == <<"0", "0", "0", "0", "0", "0", "0", "0", "0", "0", " ", "6", "5", "5", "3", "5", " ", "f", "\r", "\n">>
S_inuse == <<" ", "0", "0", "0", "0", "0", " ", "n", "\r", "\n">>
S_trailer == <<"t", "r", "a", "i", "l", "e", "r">>
S_startxref == <<"s", "t", "a", "r", "t", "x", "r", "e", "f">>
S_eof == <<"%", "%", "E", "O", "F">>
S_true == <<"t", "r", "u", "e">>
S_false == <<"f", "a", "l", "s", "e">>
S_gen0 == <<" ", "0">>
S_R == <<" ", "R">>
S_slash == <<"/">>
S_aopen == <<"[">>
S_aclose == <<"]">>
S_dopen == <<"<", "<">>
S_dclose == <<">", ">">>
K_Size == <<"S", "i", "z", "e">>
K_Root == <<"R", "o", "o", "t">>
K_Type == <<"T", "y", "p", "e">>
K_Kids == <<"K", "i", "d", "s">>
K_Count == <<"C", "o", "u", "n", "t">>
K_Parent == <<"P", "a", "r", "e", "n", "t">>
N_Pages == <<"P", "a", "g", "e", "s">>
N_Page == <<"P", "a", "g", "e">>

DigitChars == <<"0", "1", "2", "3", "4", "5", "6", "7", "8", "9">>

(***************************************************************************)
(* Inputs of the operations.                                               *)
(***************************************************************************)
\* Ref values: NonZeroI32 restricted to id > 0 by Ref::new.
Ids == 1 .. MaxId
Bools == {FALSE}
Ints == {-7}
\* An f32 is given as a whole number of halves, which f32 holds exactly.
Reals == {3}
Names == {N_Page}
Keys == {K_Type}
\* The references written as values, and the roots given to end().
Targets == {2}
Roots == {2}
Indents == {2}
Versions == {<<1, 7>>}
\* Rect::new(0.0, 0.0, 595.0, 842.0) of the crate example, in halves.
Rects == {[x1 |-> 0, y1 |-> 0, x2 |-> 1190, y2 |-> 1684]}
\* The lists of kids given to Pages::kids.
KidLists == {<<>>, <<3>>, <<3, 1>>}

(***************************************************************************)
(* Display: the text std::fmt writes for "{}".                             *)
(***************************************************************************)
RECURSIVE DisplayNat(_)
DisplayNat(n) ==
    IF n < 10 THEN <<DigitChars[n + 1]>>
    ELSE DisplayNat(n \div 10) \o <<DigitChars[(n % 10) + 1]>>

\* The digits of -n for n < 0, without forming -n, which i32 does not hold
\* for n = i32::MIN.
DisplayNeg(n) ==
    LET d == (10 - (n % 10)) % 10
        q == 0 - ((n + d) \div 10)
    IN  (IF q = 0 THEN <<>> ELSE DisplayNat(q)) \o <<DigitChars[d + 1]>>

DisplayI32(n) == IF n < 0 THEN <<"-">> \o DisplayNeg(n) ELSE DisplayNat(n)

DisplayBool(b) == IF b THEN S_true ELSE S_false

DisplayF32(h) ==
    LET a == IF h < 0 THEN -h ELSE h
    IN  (IF h < 0 THEN <<"-">> ELSE <<>>)
        \o DisplayNat(a \div 2)
        \o (IF a % 2 = 1 THEN <<".", "5">> ELSE <<>>)

(***************************************************************************)
(* i32.  An addition that leaves the range panics in a build with          *)
(* overflow checks (the debug profile) and wraps in a build without them   *)
(* (the release profile).                                                  *)
(***************************************************************************)
I32Max == 2147483647
I32Min == (0 - I32Max) - 1

Builds == {"debug", "release"}

\* a + b in i32: whether it overflows, and the wrapped sum.
I32_add(a, b) ==
    LET over == a > 0 /\ b > 0 /\ a > I32Max - b
        under == a < 0 /\ b < 0 /\ a < I32Min - b
    IN  [overflow |-> over \/ under,
         value |-> IF over THEN (a - I32Max - 1) + (b - I32Max - 1)
                   ELSE IF under THEN (a + I32Max + 1) + (b + I32Max + 1)
                   ELSE a + b]

\* The integers a caller may hand to Ref::new.
RawIds == (0 - MaxId) .. MaxId

\* NonZeroI32::new: an Option, here a sequence of at most one element.
NonZeroI32_new(n) == IF n # 0 THEN <<n>> ELSE <<>>

\* A Ref::new without the test `id > 0`.
Ref_new_nonzero(id) ==
    LET val == NonZeroI32_new(id)
    IN  [ok |-> val # <<>>, ref |-> val]

\* Ref::new: expect() panics on None.
Ref_new(id) ==
    LET val == IF id > 0 THEN NonZeroI32_new(id) ELSE <<>>
    IN  [ok |-> val # <<>>, ref |-> val]

Ref_get(ref) == ref[1]

\* impl Display for Ref: "{} 0".
DisplayRef(id) == DisplayI32(id) \o S_gen0

RECURSIVE Repeat(_, _)
Repeat(s, n) == IF n <= 0 THEN <<>> ELSE s \o Repeat(s, n - 1)

\* "{:010}": zero-padded to a width of at least ten.
Pad10(n) ==
    LET d == DisplayNat(n)
    IN  Repeat(<<"0">>, 10 - Len(d)) \o d

(***************************************************************************)
(* The root writer.  A writer value w is the record of the fields of       *)
(* PdfWriter; the operators below are its methods as functions from the    *)
(* writer before the call to the writer after it.                          *)
(***************************************************************************)
new == [buf |-> <<>>, offsets |-> <<>>, depth |-> 0, indent |-> 0]

\* A write! that stores the text in place of the buffer.
write_overwrite(w, s) == [w EXCEPT !.buf = s]

\* write!: every arm appends to the buffer.
write(w, s) == [w EXCEPT !.buf = @ \o s]

\* writeln!: write!, then push b'\n'.
writeln(w, s) == write(write(w, s), NL)

set_indent(w, n) == [w EXCEPT !.indent = n]

start(w, major, minor) ==
    writeln(w, S_pdf \o DisplayNat(major) \o S_dot \o DisplayNat(minor) \o NL)

\* A start_indirect without its assertion.
start_indirect_unchecked(w, id) ==
    LET w1 == [w EXCEPT !.depth = @ + 1]
        w2 == [w1 EXCEPT !.offsets = Append(@, <<id, Len(w1.buf)>>)]
    IN  [ok |-> TRUE, w |-> writeln(w2, DisplayRef(id) \o S_obj)]

\* A start_indirect whose assertion comes after the offset is recorded.
start_indirect_assert_late(w, id) ==
    LET w1 == [w EXCEPT !.offsets = Append(@, <<id, Len(w.buf)>>)]
    IN  IF w.depth # 0 THEN [ok |-> FALSE, w |-> w1]
        ELSE [ok |-> TRUE,
              w |-> writeln([w1 EXCEPT !.depth = @ + 1], DisplayRef(id) \o S_obj)]

\* A start_indirect that records the offset after writing the "obj" line.
start_indirect_offset_after(w, id) ==
    IF w.depth # 0 THEN [ok |-> FALSE, w |-> w]
    ELSE LET w1 == [w EXCEPT !.depth = @ + 1]
             w2 == writeln(w1, DisplayRef(id) \o S_obj)
         IN  [ok |-> TRUE,
              w |-> [w2 EXCEPT !.offsets = Append(@, <<id, Len(w2.buf)>>)]]

\* The result carries ok = FALSE when assert_eq!(self.depth, 0) fails.
\* A start_indirect that keeps one offset per identifier.
start_indirect_dedup(w, id) ==
    IF w.depth # 0 THEN [ok |-> FALSE, w |-> w]
    ELSE LET w1 == [w EXCEPT !.depth = @ + 1]
             seen == \E i \in 1 .. Len(w1.offsets) : w1.offsets[i][1] = id
             w2 == IF seen THEN w1
                   ELSE [w1 EXCEPT !.offsets = Append(@, <<id, Len(w1.buf)>>)]
         IN  [ok |-> TRUE, w |-> writeln(w2, DisplayRef(id) \o S_obj)]

start_indirect(w, id) ==
    IF w.depth # 0 THEN [ok |-> FALSE, w |-> w]
    ELSE LET w1 == [w EXCEPT !.depth = @ + 1]
             w2 == [w1 EXCEPT !.offsets = Append(@, <<id, Len(w1.buf)>>)]
         IN  [ok |-> TRUE, w |-> writeln(w2, DisplayRef(id) \o S_obj)]

end_indirect(w) ==
    LET w1 == [w EXCEPT !.depth = @ - 1]
    IN  write(writeln(w1, S_endobj), NL)

write_indent(w) == write(w, Repeat(SP, w.indent * w.depth))

(***************************************************************************)
(* Object: the writer of one value slot.                                   *)
(***************************************************************************)
Object_bool(w, value) == write(w, DisplayBool(value))

Object_int(w, value) == write(w, DisplayI32(value))

Object_real(w, value) == write(w, DisplayF32(value))

Object_name(w, name) == write(w, S_slash \o name)

Object_id(w, id) == write(w, DisplayRef(id) \o S_R)

(***************************************************************************)
(* Array.                                                                  *)
(***************************************************************************)
\* A start that raises the depth as a dictionary's does.
Array_start_deeper(w) == [write(w, S_aopen) EXCEPT !.depth = @ + 1]

Array_start(w) == write(w, S_aopen)

\* item() with the array's current len: what it writes.
Array_item(w, len) == IF len # 0 THEN write(w, SP) ELSE w

\* An item() whose increment stands inside its `if self.len != 0`.
Array_item_len_in_if(len) == IF len # 0 THEN len + 1 ELSE len

\* item() with the array's current len: the new len.
Array_item_len(len) == len + 1

\* A drop that closes the indirect object whatever the array's flag.
Array_drop_always_end(w, indirect) == end_indirect(write(w, S_aclose))

Array_drop(w, indirect) ==
    LET w1 == write(w, S_aclose)
    IN  IF indirect THEN end_indirect(w1) ELSE w1

Object_rect(w, indirect, rect) ==
    LET a0 == Array_start(w)
        a1 == Object_real(Array_item(a0, 0), rect.x1)
        l1 == Array_item_len(0)
        a2 == Object_real(Array_item(a1, l1), rect.y1)
        l2 == Array_item_len(l1)
        a3 == Object_real(Array_item(a2, l2), rect.x2)
        l3 == Array_item_len(l2)
        a4 == Object_real(Array_item(a3, l3), rect.y2)
    IN  Array_drop(a4, indirect)

(***************************************************************************)
(* Dict.                                                                   *)
(***************************************************************************)
\* A start that raises the depth before it writes the indentation.
Dict_start_depth_first(w) ==
    LET w1 == [w EXCEPT !.depth = @ + 1]
    IN  writeln(write_indent(w1), S_dopen)

Dict_start(w) ==
    LET w1 == writeln(write_indent(w), S_dopen)
    IN  [w1 EXCEPT !.depth = @ + 1]

\* key() with the dictionary's current len; the new len is len + 1.
Dict_key(w, len, key) ==
    LET w1 == IF len # 0 THEN write(w, NL) ELSE w
    IN  write(write_indent(w1), S_slash \o key \o SP)

\* A drop that writes ">>" only when a key was written.
Dict_drop_closer_in_if(w, len, indirect) ==
    LET w1 == [w EXCEPT !.depth = @ - 1]
        w2 == IF len # 0 THEN writeln(write_indent(write(w1, NL)), S_dclose) ELSE w1
    IN  IF indirect THEN end_indirect(w2) ELSE w2

Dict_drop(w, len, indirect) ==
    LET w1 == IF len # 0 THEN write(w, NL) ELSE w
        w2 == [w1 EXCEPT !.depth = @ - 1]
        w3 == writeln(write_indent(w2), S_dclose)
    IN  IF indirect THEN end_indirect(w3) ELSE w3

(***************************************************************************)
(* Pages: the writer of a page tree, a Dict that only its own methods      *)
(* reach.  len is the len of that Dict.                                    *)
(***************************************************************************)
\* PdfWriter::pages: Pages::start(self.obj(id)).
pages(w, id) ==
    LET r == start_indirect(w, id)
    IN  IF ~r.ok THEN r
        ELSE [ok |-> TRUE,
              w |-> Object_name(Dict_key(Dict_start(r.w), 0, K_Type), N_Pages)]

Pages_parent(w, len, parent) == Object_id(Dict_key(w, len, K_Parent), parent)

\* The loop of kids(): the writer and the array's len after the kids from i on.
RECURSIVE KidsLoop(_, _, _, _)
KidsLoop(w, len, kids, i) ==
    IF i > Len(kids) THEN [w |-> w, len |-> len]
    ELSE KidsLoop(Object_id(Array_item(w, len), kids[i]),
                  Array_item_len(len), kids, i + 1)

\* kids() on a Pages whose Dict has the given len; the new len is len + 2.
Pages_kids(w, len, kids) ==
    LET a0 == Array_start(Dict_key(w, len, K_Kids))
        a == KidsLoop(a0, 0, kids, 1)
        w1 == Array_drop(a.w, FALSE)
    IN  Object_int(Dict_key(w1, len + 1, K_Count), a.len)

(***************************************************************************)
(* The cross-reference table and the trailer.                              *)
(***************************************************************************)
\* The order of (Ref, usize) pairs: derived Ord, lexicographic.
PairLess(p, q) == p[1] < q[1] \/ (p[1] = q[1] /\ p[2] < q[2])

RemoveAt(s, i) == SubSeq(s, 1, i - 1) \o SubSeq(s, i + 1, Len(s))

\* An xref_table that leaves the offsets in the order of opening.
SortOffsets_unsorted(s) == s

\* offsets.sort()
RECURSIVE SortOffsets(_)
SortOffsets(s) ==
    IF s = <<>> THEN <<>>
    ELSE LET i == CHOOSE k \in 1 .. Len(s) :
                      \A j \in 1 .. Len(s) :
                          ~PairLess(s[j], s[k]) /\ (s[j] = s[k] => k <= j)
         IN  <<s[i]>> \o SortOffsets(RemoveAt(s, i))

\* The loop without its inner loop over the unused identifiers.
RECURSIVE XrefEntries_no_free(_, _, _)
XrefEntries_no_free(sorted, i, next) ==
    IF i > Len(sorted) THEN <<>>
    ELSE Pad10(sorted[i][2]) \o S_inuse
         \o XrefEntries_no_free(sorted, i + 1, sorted[i][1] + 1)

\* The loop over the sorted offsets, from entry i on, with the local `next`.
RECURSIVE XrefEntries(_, _, _)
XrefEntries(sorted, i, next) ==
    IF i > Len(sorted) THEN <<>>
    ELSE LET id == sorted[i][1]
             offset == sorted[i][2]
         IN  Repeat(S_free, id - next)
             \o Pad10(offset) \o S_inuse
             \o XrefEntries(sorted, i + 1, id + 1)

\* An xref_table whose table length for an empty offset table is 2.
xref_table_empty_len(w) ==
    LET sorted == SortOffsets(w.offsets)
        xref_len == 1 + (IF sorted = <<>> THEN 1 ELSE sorted[Len(sorted)][1])
        xref_offset == Len(w.buf)
        w0 == [w EXCEPT !.offsets = <<>>]
        w1 == writeln(w0, S_xref)
        w2 == writeln(w1, S_zero_sp \o DisplayI32(xref_len))
        w3 == write(w2, S_free)
    IN  [w |-> write(w3, XrefEntries(sorted, 1, 1)),
         xref_len |-> xref_len, xref_offset |-> xref_offset]

\* An xref_table that reads the offsets and leaves them in the writer.
xref_table_keeps_offsets(w) ==
    LET sorted == SortOffsets(w.offsets)
        xref_len == 1 + (IF sorted = <<>> THEN 0 ELSE sorted[Len(sorted)][1])
        xref_offset == Len(w.buf)
        w1 == writeln(w, S_xref)
        w2 == writeln(w1, S_zero_sp \o DisplayI32(xref_len))
        w3 == write(w2, S_free)
    IN  [w |-> write(w3, XrefEntries(sorted, 1, 1)),
         xref_len |-> xref_len, xref_offset |-> xref_offset]

xref_table(w) ==
    LET sorted == SortOffsets(w.offsets)
        xref_len == 1 + (IF sorted = <<>> THEN 0 ELSE sorted[Len(sorted)][1])
        xref_offset == Len(w.buf)
        w0 == [w EXCEPT !.offsets = <<>>]
        w1 == writeln(w0, S_xref)
        w2 == writeln(w1, S_zero_sp \o DisplayI32(xref_len))
        w3 == write(w2, S_free)
    IN  [w |-> write(w3, XrefEntries(sorted, 1, 1)),
         xref_len |-> xref_len, xref_offset |-> xref_offset]

\* A trailer that writes the buffer length it finds as the startxref offset.
trailer_offset_now(w, root, xref_len, xref_offset) ==
    LET w1 == writeln(w, S_trailer)
        d0 == Dict_start(w1)
        d1 == Object_int(Dict_key(d0, 0, K_Size), xref_len)
        d2 == Object_id(Dict_key(d1, 1, K_Root), root)
        w2 == Dict_drop(d2, 2, FALSE)
        w3 == writeln(w2, S_startxref)
        w4 == writeln(w3, DisplayNat(Len(w.buf)))
    IN  writeln(w4, S_eof)

trailer(w, root, xref_len, xref_offset) ==
    LET w1 == writeln(w, S_trailer)
        d0 == Dict_start(w1)
        d1 == Object_int(Dict_key(d0, 0, K_Size), xref_len)
        d2 == Object_id(Dict_key(d1, 1, K_Root), root)
        w2 == Dict_drop(d2, 2, FALSE)
        w3 == writeln(w2, S_startxref)
        w4 == writeln(w3, DisplayNat(xref_offset))
    IN  writeln(w4, S_eof)

\* An end whose assertion comes after the table is written.
end_assert_late(w, root) ==
    LET x == xref_table(w)
    IN  IF w.depth # 0
        THEN [ok |-> FALSE, w |-> x.w, xref_len |-> 0, xref_offset |-> 0]
        ELSE [ok |-> TRUE, w |-> trailer(x.w, root, x.xref_len, x.xref_offset),
              xref_len |-> x.xref_len, xref_offset |-> x.xref_offset]

\* The result carries ok = FALSE when assert_eq!(self.depth, 0) fails.
end(w, root) ==
    IF w.depth # 0
    THEN [ok |-> FALSE, w |-> w, xref_len |-> 0, xref_offset |-> 0]
    ELSE LET x == xref_table(w)
         IN  [ok |-> TRUE, w |-> trailer(x.w, root, x.xref_len, x.xref_offset),
              xref_len |-> x.xref_len, xref_offset |-> x.xref_offset]

(***************************************************************************)
(* The state: the fields of the one PdfWriter, the stack of live scoped    *)
(* writers, whether an assertion has failed, the number of calls made and    *)
(* allowed, and a record of the last operation; and, for the runs that     *)
(* follow xref_table step by step, the build profile and the locals of     *)
(* the running call.                                                       *)
(***************************************************************************)
VARIABLES buf, offsets, depth, indent, stack, status, ops, budget, last,
          build, call

vars ==
    <<buf, offsets, depth, indent, stack, status, ops, budget, last, build,
      call>>

W == [buf |-> buf, offsets |-> offsets, depth |-> depth, indent |-> indent]

Set(w) ==
    /\ buf' = w.buf
    /\ offsets' = w.offsets
    /\ depth' = w.depth
    /\ indent' = w.indent

\* The writer as it was when the last operation began.
Pre == [len |-> Len(buf), depth |-> depth, offsets |-> offsets]

\* A live writer: its kind, its fields indirect and len, the number of
\* item() or key() calls made on it, and the nesting depth d at which the
\* call that made it began.
Frame(kind, indirect, len) ==
    [kind |-> kind, indirect |-> indirect, len |-> len, calls |-> len,
     d |-> depth]
\* The receiver of a call made on the PdfWriter itself.
NoFrame ==
    [kind |-> "PdfWriter", indirect |-> FALSE, len |-> 0, calls |-> 0, d |-> 0]

\* The record of an operation: self is the live writer it was called on.
Op(name, ok, indirect, arg, xlen, xoff) ==
    [op |-> name, ok |-> ok, indirect |-> indirect, arg |-> arg,
     xref_len |-> xlen, xref_offset |-> xoff, pre |-> Pre,
     self |-> IF stack = <<>> THEN NoFrame ELSE stack[Len(stack)]]
ObjectFrame(indirect) == Frame("Object", indirect, 0)
ArrayFrame(indirect) == Frame("Array", indirect, 0)
DictFrame(indirect) == Frame("Dict", indirect, 0)
\* Pages::start has written the key Type.
PagesFrame == Frame("Pages", TRUE, 1)

Top == stack[Len(stack)]
Pop == SubSeq(stack, 1, Len(stack) - 1)
TopIs(kind) == stack # <<>> /\ Top.kind = kind

\* No call of end() is running.
NoCall ==
    [pc |-> "idle", sorted |-> <<>>, i |-> 0, next |-> 0, xref_len |-> 0,
     xref_offset |-> 0, root |-> 0]

\* A call can be made while no assertion has failed and no call is running.
CanCall == status = "running" /\ ops < budget /\ call = NoCall
\* The methods of PdfWriter take &mut self: no scoped writer is alive.
CanCallRoot == CanCall /\ stack = <<>>

\* The writer after PdfWriter::new(), in a run of b calls of a program
\* built with the profile p.
InitBuild(b, p) ==
    /\ budget = b
    /\ build = p
    /\ call = NoCall
    /\ buf = new.buf
    /\ offsets = new.offsets
    /\ depth = new.depth
    /\ indent = new.indent
    /\ stack = <<>>
    /\ status = "running"
    /\ ops = 0
    /\ last = [op |-> "new", ok |-> TRUE, indirect |-> FALSE, arg |-> 0,
               xref_len |-> 0, xref_offset |-> 0,
               pre |-> [len |-> 0, depth |-> 0, offsets |-> <<>>],
               self |-> NoFrame]

\* With identifiers of 1 .. MaxId no addition overflows and the two profiles
\* build the same program.
InitWriter(b) == InitBuild(b, "debug")

\* Calls that set the indent it already has change nothing and are left out.
SetIndent(n) ==
    /\ CanCallRoot
    /\ n # indent
    /\ Set(set_indent(W, n))
    /\ last' = Op("set_indent", TRUE, FALSE, n, 0, 0)
    /\ ops' = ops + 1
    /\ UNCHANGED <<stack, status, budget, build, call>>

Start(v) ==
    /\ CanCallRoot
    /\ Set(start(W, v[1], v[2]))
    /\ last' = Op("start", TRUE, FALSE, 0, 0, 0)
    /\ ops' = ops + 1
    /\ UNCHANGED <<stack, status, budget, build, call>>

\* PdfWriter::obj: start_indirect, then Object::new(self, true).
Obj(id) ==
    /\ CanCallRoot
    /\ LET r == start_indirect(W, id)
       IN  /\ Set(r.w)
           /\ status' = IF r.ok THEN "running" ELSE "panicked"
           /\ stack' = IF r.ok THEN <<ObjectFrame(TRUE)>> ELSE <<>>
           /\ last' = Op("obj", r.ok, TRUE, id, 0, 0)
    /\ ops' = ops + 1
    /\ UNCHANGED <<budget, build, call>>

End(root) ==
    /\ CanCallRoot
    /\ LET r == end(W, root)
       IN  /\ Set(r.w)
           /\ status' = IF r.ok THEN "running" ELSE "panicked"
           /\ last' = Op("end", r.ok, FALSE, root, r.xref_len, r.xref_offset)
    /\ ops' = ops + 1
    /\ UNCHANGED <<stack, budget, build, call>>

\* The fill operations take the Object by value: the slot is gone after.
Fill(name, w, arg) ==
    /\ CanCall
    /\ TopIs("Object")
    /\ Set(w)
    /\ stack' = Pop
    /\ last' = Op(name, TRUE, Top.indirect, arg, 0, 0)
    /\ ops' = ops + 1
    /\ UNCHANGED <<status, budget, build, call>>

FillBool(v) == Fill("bool", Object_bool(W, v), 0)
FillInt(v) == Fill("int", Object_int(W, v), v)
FillReal(v) == Fill("real", Object_real(W, v), v)
FillName(n) == Fill("name", Object_name(W, n), 0)
FillId(id) == Fill("id", Object_id(W, id), id)
FillRect(r) == TopIs("Object") /\ Fill("rect", Object_rect(W, Top.indirect, r), 0)

\* Object::array: the Object becomes an Array with the same indirect flag.
FillArray ==
    /\ CanCall
    /\ TopIs("Object")
    /\ Set(Array_start(W))
    /\ stack' = Append(Pop, ArrayFrame(Top.indirect))
    /\ last' = Op("array", TRUE, Top.indirect, 0, 0, 0)
    /\ ops' = ops + 1
    /\ UNCHANGED <<status, budget, build, call>>

FillDict ==
    /\ CanCall
    /\ TopIs("Object")
    /\ Set(Dict_start(W))
    /\ stack' = Append(Pop, DictFrame(Top.indirect))
    /\ last' = Op("dict", TRUE, Top.indirect, 0, 0, 0)
    /\ ops' = ops + 1
    /\ UNCHANGED <<status, budget, build, call>>

\* An Object whose drop closes the indirect object it is the slot of.
DropObject_closing ==
    /\ status = "running"
    /\ TopIs("Object")
    /\ Set(IF Top.indirect THEN end_indirect(W) ELSE W)
    /\ stack' = Pop
    /\ last' = Op("drop_object", TRUE, Top.indirect, 0, 0, 0)
    /\ UNCHANGED <<status, ops, budget, build, call>>

\* An Object has no Drop implementation: an unfilled slot just goes away.
DropObject ==
    /\ status = "running"
    /\ TopIs("Object")
    /\ stack' = Pop
    /\ last' = Op("drop_object", TRUE, Top.indirect, 0, 0, 0)
    /\ UNCHANGED <<buf, offsets, depth, indent, status, ops, budget, build, call>>

Item ==
    /\ CanCall
    /\ TopIs("Array")
    /\ Set(Array_item(W, Top.len))
    /\ stack' = Append([stack EXCEPT ![Len(stack)].len = Array_item_len(@),
                                      ![Len(stack)].calls = @ + 1],
                        ObjectFrame(FALSE))
    /\ last' = Op("item", TRUE, Top.indirect, Top.calls + 1, 0, 0)
    /\ ops' = ops + 1
    /\ UNCHANGED <<status, budget, build, call>>

DropArray ==
    /\ status = "running"
    /\ TopIs("Array")
    /\ Set(Array_drop(W, Top.indirect))
    /\ stack' = Pop
    /\ last' = Op("drop_array", TRUE, Top.indirect, Top.len, 0, 0)
    /\ UNCHANGED <<status, ops, budget, build, call>>

Key(k) ==
    /\ CanCall
    /\ TopIs("Dict")
    /\ Set(Dict_key(W, Top.len, k))
    /\ stack' = Append([stack EXCEPT ![Len(stack)].len = @ + 1,
                                      ![Len(stack)].calls = @ + 1],
                        ObjectFrame(FALSE))
    /\ last' = Op("key", TRUE, Top.indirect, Top.calls + 1, 0, 0)
    /\ ops' = ops + 1
    /\ UNCHANGED <<status, budget, build, call>>

DropDict ==
    /\ status = "running"
    /\ TopIs("Dict")
    /\ Set(Dict_drop(W, Top.len, Top.indirect))
    /\ stack' = Pop
    /\ last' = Op("drop_dict", TRUE, Top.indirect, Top.len, 0, 0)
    /\ UNCHANGED <<status, ops, budget, build, call>>

\* PdfWriter::pages.
Pages(id) ==
    /\ CanCallRoot
    /\ LET r == pages(W, id)
       IN  /\ Set(r.w)
           /\ status' = IF r.ok THEN "running" ELSE "panicked"
           /\ stack' = IF r.ok THEN <<PagesFrame>> ELSE <<>>
           /\ last' = Op("pages", r.ok, TRUE, id, 0, 0)
    /\ ops' = ops + 1
    /\ UNCHANGED <<budget, build, call>>

PagesParent(parent) ==
    /\ CanCall
    /\ TopIs("Pages")
    /\ Set(Pages_parent(W, Top.len, parent))
    /\ stack' = [stack EXCEPT ![Len(stack)].len = @ + 1,
                              ![Len(stack)].calls = @ + 1]
    /\ last' = Op("pages_parent", TRUE, TRUE, parent, 0, 0)
    /\ ops' = ops + 1
    /\ UNCHANGED <<status, budget, build, call>>

PagesKids(kids) ==
    /\ CanCall
    /\ TopIs("Pages")
    /\ Set(Pages_kids(W, Top.len, kids))
    /\ stack' = [stack EXCEPT ![Len(stack)].len = @ + 2,
                              ![Len(stack)].calls = @ + 2]
    /\ last' = Op("pages_kids", TRUE, TRUE, Len(kids), 0, 0)
    /\ ops' = ops + 1
    /\ UNCHANGED <<status, budget, build, call>>

\* Ref::new panics: the call that was to take the Ref is not made.
RefPanic(id) ==
    /\ status' = "panicked"
    /\ last' = Op("ref_new", FALSE, FALSE, id, 0, 0)
    /\ ops' = ops + 1
    /\ UNCHANGED <<buf, offsets, depth, indent, stack, budget, build, call>>

\* w.obj(Ref::new(id))
ObjNew(id) ==
    /\ CanCallRoot
    /\ LET r == Ref_new(id)
       IN  IF r.ok THEN Obj(Ref_get(r.ref)) ELSE RefPanic(id)

\* w.end(Ref::new(id))
EndNew(id) ==
    /\ CanCallRoot
    /\ LET r == Ref_new(id)
       IN  IF r.ok THEN End(Ref_get(r.ref)) ELSE RefPanic(id)

\* slot.id(Ref::new(id))
FillIdNew(id) ==
    /\ CanCall
    /\ TopIs("Object")
    /\ LET r == Ref_new(id)
       IN  IF r.ok THEN FillId(Ref_get(r.ref)) ELSE RefPanic(id)

(***************************************************************************)
(* end() step by step: the assertion and the head of xref_table, one step  *)
(* per entry written by its loop, then the trailer.  The locals of the     *)
(* call are in `call`; the entries of free identifiers are counted as      *)
(* calls, which bounds their number.                                       *)
(***************************************************************************)
\* A panic, with the writer left as w.
Panic(name, w, root) ==
    /\ Set(w)
    /\ status' = "panicked"
    /\ last' = Op(name, FALSE, FALSE, root, 0, 0)
    /\ UNCHANGED call

\* assert_eq!, mem::take, sort, xref_len, xref_offset, "xref", the count
\* line and the entry of identifier zero.
EndBegin(root) ==
    /\ CanCallRoot
    /\ IF depth # 0 THEN Panic("end", W, root)
       ELSE LET sorted == SortOffsets(offsets)
                w0 == [W EXCEPT !.offsets = <<>>]
                len == I32_add(1, IF sorted = <<>> THEN 0
                                  ELSE sorted[Len(sorted)][1])
                w1 == writeln(w0, S_xref)
                w2 == writeln(w1, S_zero_sp \o DisplayI32(len.value))
            IN  IF len.overflow /\ build = "debug"
                THEN Panic("xref_len", w0, root)
                ELSE /\ Set(write(w2, S_free))
                     /\ call' = [pc |-> "entries", sorted |-> sorted, i |-> 1,
                                 next |-> 1, xref_len |-> len.value,
                                 xref_offset |-> Len(buf), root |-> root]
                     /\ last' = Op("xref_len", TRUE, FALSE, root, len.value,
                                   Len(buf))
                     /\ UNCHANGED status
    /\ ops' = ops + 1
    /\ UNCHANGED <<stack, budget, build>>

\* One turn of `while next < id`.
XrefFree ==
    /\ status = "running"
    /\ ops < budget
    /\ call.pc = "entries"
    /\ call.i <= Len(call.sorted)
    /\ call.next < call.sorted[call.i][1]
    /\ LET next == I32_add(call.next, 1)
       IN  IF next.overflow /\ build = "debug"
           THEN Panic("xref_free", write(W, S_free), call.root)
           ELSE /\ Set(write(W, S_free))
                /\ call' = [call EXCEPT !.next = next.value]
                /\ last' = Op("xref_free", TRUE, FALSE, call.next, 0, 0)
                /\ UNCHANGED status
    /\ ops' = ops + 1
    /\ UNCHANGED <<stack, budget, build>>

\* The in-use entry of the pair at i, and `next = id + 1`.
XrefInUse ==
    /\ status = "running"
    /\ call.pc = "entries"
    /\ call.i <= Len(call.sorted)
    /\ ~(call.next < call.sorted[call.i][1])
    /\ LET id == call.sorted[call.i][1]
           offset == call.sorted[call.i][2]
           w1 == write(W, Pad10(offset) \o S_inuse)
           next == I32_add(id, 1)
       IN  IF next.overflow /\ build = "debug"
           THEN Panic("xref_next", w1, call.root)
           ELSE /\ Set(w1)
                /\ call' = [call EXCEPT !.next = next.value, !.i = @ + 1]
                /\ last' = Op("xref_next", TRUE, FALSE, id, next.value, 0)
                /\ UNCHANGED status
    /\ UNCHANGED <<stack, ops, budget, build>>

\* The loop is over: xref_table returns and end() writes the trailer.
EndTrailer ==
    /\ status = "running"
    /\ call.pc = "entries"
    /\ call.i > Len(call.sorted)
    /\ Set(trailer(W, call.root, call.xref_len, call.xref_offset))
    /\ call' = NoCall
    /\ last' = Op("end", TRUE, FALSE, call.root, call.xref_len,
                  call.xref_offset)
    /\ UNCHANGED <<stack, status, ops, budget, build>>

\* Pages has no Drop of its own: its field dict is dropped.
DropPages ==
    /\ status = "running"
    /\ TopIs("Pages")
    /\ Set(Dict_drop(W, Top.len, Top.indirect))
    /\ stack' = Pop
    /\ last' = Op("drop_pages", TRUE, Top.indirect, Top.len, 0, 0)
    /\ UNCHANGED <<status, ops, budget, build, call>>

Next ==
    \/ \E n \in Indents : SetIndent(n)
    \/ \E v \in Versions : Start(v)
    \/ \E id \in Ids : Obj(id)
    \/ \E root \in Roots : End(root)
    \/ \E v \in Bools : FillBool(v)
    \/ \E v \in Ints : FillInt(v)
    \/ \E v \in Reals : FillReal(v)
    \/ \E n \in Names : FillName(n)
    \/ \E id \in Targets : FillId(id)
    \/ \E r \in Rects : FillRect(r)
    \/ FillArray
    \/ FillDict
    \/ DropObject
    \/ Item
    \/ DropArray
    \/ \E k \in Keys : Key(k)
    \/ DropDict

Init == InitWriter(MaxOps)

Spec == Init /\ [][Next]_vars

\* The scopes of Rust end: a live writer is dropped sooner or later.
FairSpec ==
    Spec /\ WF_vars(DropObject) /\ WF_vars(DropArray) /\ WF_vars(DropDict)

(***************************************************************************)
(* Documents of objects without nested values: every object is a           *)
(* rectangle, an empty array, an empty dictionary, an integer or an        *)
(* unfilled slot.  Its runs are runs of Spec with a larger number of       *)
(* calls, so that documents of three objects are reached.                  *)
(***************************************************************************)
InitObjects == InitWriter(MaxDocOps)

NextObjects ==
    \/ \E n \in Indents : SetIndent(n)
    \/ \E v \in Versions : Start(v)
    \/ \E id \in Ids : Obj(id)
    \/ \E root \in Roots : End(root)
    \/ \E v \in Ints : FillInt(v)
    \/ \E r \in Rects : FillRect(r)
    \/ FillArray
    \/ FillDict
    \/ DropObject
    \/ DropArray
    \/ DropDict

SpecObjects == InitObjects /\ [][NextObjects]_vars

(***************************************************************************)
(* Arrays and page trees: the objects are rectangles, arrays whose items   *)
(* are left unfilled or filled with a reference, a rectangle or an array,  *)
(* and page trees.                                                         *)
(***************************************************************************)
NextPages ==
    \/ \E n \in Indents : SetIndent(n)
    \/ \E id \in Ids : Obj(id)
    \/ \E id \in Targets : FillId(id)
    \/ \E r \in Rects : FillRect(r)
    \/ FillArray
    \/ DropObject
    \/ Item
    \/ DropArray
    \/ \E id \in Ids : Pages(id)
    \/ \E parent \in Targets : PagesParent(parent)
    \/ \E kids \in KidLists : PagesKids(kids)
    \/ DropPages

InitPages == InitWriter(MaxPageOps)

SpecPages == InitPages /\ [][NextPages]_vars

(***************************************************************************)
(* Callers that make every Ref with Ref::new from an integer of either     *)
(* sign: objects that are references or arrays of references.              *)
(***************************************************************************)
NextRefs ==
    \/ \E id \in RawIds : ObjNew(id)
    \/ \E id \in RawIds : EndNew(id)
    \/ \E id \in RawIds : FillIdNew(id)
    \/ FillArray
    \/ DropObject
    \/ Item
    \/ DropArray

SpecRefs == Init /\ [][NextRefs]_vars

(***************************************************************************)
(* Documents of rectangles and integers whose identifiers come from both   *)
(* ends of the range of Ref, in either build, with end() followed step by  *)
(* step.                                                                   *)
(***************************************************************************)
\* Identifiers at both ends of 1 ..= i32::MAX.
EdgeIds == {1, 2, I32Max}

InitI32 == \E p \in Builds : InitBuild(MaxDocOps, p)

NextI32 ==
    \/ \E id \in EdgeIds : Obj(id)
    \/ \E v \in Ints : FillInt(v)
    \/ \E r \in Rects : FillRect(r)
    \/ \E root \in Roots : EndBegin(root)
    \/ XrefFree
    \/ XrefInUse
    \/ EndTrailer

SpecI32 == InitI32 /\ [][NextI32]_vars

(***************************************************************************)
(* Reading the buffer back.  Positions are byte offsets, counted from 0.   *)
(***************************************************************************)
IsPrefix(s, b) == Len(s) <= Len(b) /\ SubSeq(b, 1, Len(s)) = s

\* The text pat stands in b at offset pos.
At(b, pos, pat) ==
    /\ pos >= 0
    /\ pos + Len(pat) <= Len(b)
    /\ SubSeq(b, pos + 1, pos + Len(pat)) = pat

EndsWith(b, pat) == Len(pat) <= Len(b) /\ At(b, Len(b) - Len(pat), pat)

\* The offsets at or after from where pat stands in b.
Occurrences(b, pat, from) ==
    {i \in from .. Len(b) - Len(pat) : b[i + 1] = pat[1] /\ At(b, i, pat)}

\* The first of them, or Len(b) when there is none.
FirstAt(b, pat, from) ==
    IF \E i \in from .. Len(b) - Len(pat) : b[i + 1] = pat[1] /\ At(b, i, pat)
    THEN CHOOSE i \in from .. Len(b) - Len(pat) :
             /\ b[i + 1] = pat[1] /\ At(b, i, pat)
             /\ \A j \in from .. i - 1 : ~At(b, j, pat)
    ELSE Len(b)

Max(S) == CHOOSE x \in S : \A y \in S : y <= x

IsDigit(c) == \E d \in 1 .. 10 : DigitChars[d] = c
DigitValue(c) == (CHOOSE d \in 1 .. 10 : DigitChars[d] = c) - 1
AllDigits(s) == s # <<>> /\ \A i \in 1 .. Len(s) : IsDigit(s[i])

\* The number a decimal text denotes.
RECURSIVE ParseNat(_)
ParseNat(s) ==
    IF s = <<>> THEN 0
    ELSE 10 * ParseNat(SubSeq(s, 1, Len(s) - 1)) + DigitValue(s[Len(s)])

\* The text of the line of b that begins at offset pos, without its "\n".
LineAt(b, pos) == SubSeq(b, pos + 1, FirstAt(b, NL, pos))

\* The lines of b from offset pos on.
RECURSIVE LinesFrom(_, _)
LinesFrom(b, pos) ==
    IF pos >= Len(b) THEN <<>>
    ELSE LET line == LineAt(b, pos)
         IN  <<line>> \o LinesFrom(b, pos + Len(line) + 1)

\* The line is `lead`, then a number, then `tail`.
NumberLine(line, lead, tail) ==
    LET from == Len(lead) + 1
        to == Len(line) - Len(tail)
    IN  /\ from <= to
        /\ SubSeq(line, 1, Len(lead)) = lead
        /\ SubSeq(line, to + 1, Len(line)) = tail
        /\ AllDigits(SubSeq(line, from, to))
NumberOf(line, lead, tail) ==
    ParseNat(SubSeq(line, Len(lead) + 1, Len(line) - Len(tail)))

\* The text "<id> 0 obj" + line break that opens the indirect object id.
ObjHeader(id) == DisplayNat(id) \o <<" ", "0", " ", "o", "b", "j", "\n">>

(***************************************************************************)
(* The state right after a successful end(): the identifiers that were in  *)
(* the offset table, and the table and trailer as they stand in buf.       *)
(***************************************************************************)
Ended == last.op = "end" /\ last.ok

UsedIds == {last.pre.offsets[i][1] : i \in 1 .. Len(last.pre.offsets)}
DistinctIds == Cardinality(UsedIds) = Len(last.pre.offsets)
MaxUsed == IF UsedIds = {} THEN 0 ELSE Max(UsedIds)

\* Where the "xref" line stands: the buffer length when end() began.
XrefPos == last.pre.len

\* What end() appended, cut into its parts: the line after "xref", which
\* is "0 <table_length>"; the 20-byte entries between that line and the
\* line "trailer"; the lines from "trailer" on.
EndOutput ==
    LET countLine == LineAt(buf, XrefPos + 5)
        entriesPos == XrefPos + 5 + Len(countLine) + 1
        trailerPos == FirstAt(buf, S_trailer \o NL, entriesPos)
    IN  [countLine |-> countLine, entriesPos |-> entriesPos,
         trailerPos |-> trailerPos, lines |-> LinesFrom(buf, trailerPos)]

EntriesOk(t) ==
    /\ At(buf, XrefPos, S_xref \o NL)
    /\ NumberLine(t.countLine, S_zero_sp, <<>>)
    /\ t.trailerPos < Len(buf)
    /\ (t.trailerPos - t.entriesPos) % 20 = 0
XrefCount(t) == NumberOf(t.countLine, S_zero_sp, <<>>)
EntryCount(t) == (t.trailerPos - t.entriesPos) \div 20
Entry(t, k) == SubSeq(buf, t.entriesPos + 20 * k + 1, t.entriesPos + 20 * k + 20)
IsInUse(e) ==
    /\ Len(e) = 20
    /\ AllDigits(SubSeq(e, 1, 10))
    /\ SubSeq(e, 11, 20) = S_inuse
EntryOffset(e) == ParseNat(SubSeq(e, 1, 10))

SizeLead == Repeat(SP, indent) \o S_slash \o K_Size \o SP
RootLead == Repeat(SP, indent) \o S_slash \o K_Root \o SP

TrailerOk(t) ==
    /\ EntriesOk(t)
    /\ buf[Len(buf)] = "\n"
    /\ Len(t.lines) = 8
    /\ t.lines[1] = S_trailer
    /\ t.lines[2] = S_dopen
    /\ NumberLine(t.lines[3], SizeLead, <<>>)
    /\ NumberLine(t.lines[4], RootLead, S_gen0 \o S_R)
    /\ t.lines[5] = S_dclose
    /\ t.lines[6] = S_startxref
    /\ NumberLine(t.lines[7], <<>>, <<>>)
    /\ t.lines[8] = S_eof
TrailerSize(t) == NumberOf(t.lines[3], SizeLead, <<>>)
TrailerRoot(t) == NumberOf(t.lines[4], RootLead, S_gen0 \o S_R)
TrailerStartxref(t) == NumberOf(t.lines[7], <<>>, <<>>)

(***************************************************************************)
(* C1: every indirect object opened with obj() is closed whatever is       *)
(* written into its slot: once the slot is filled with a primitive, or     *)
(* the array or dictionary written into it has gone out of scope, the      *)
(* buffer ends with "endobj" + line break + blank line and the depth is    *)
(* back at 0, so that the next obj() or end() is accepted.                 *)
(***************************************************************************)
SlotClosingOps ==
    {"bool", "int", "real", "name", "id", "rect", "drop_array", "drop_dict"}

C1_IndirectObjectClosed ==
    (last.op \in SlotClosingOps /\ last.indirect) =>
        /\ EndsWith(buf, S_endobj \o NL \o NL)
        /\ depth = 0
        /\ \A id \in Ids : start_indirect(W, id).ok

(***************************************************************************)
(* C2: when the identifiers opened are distinct, the table written by      *)
(* end() has exactly 1 + max(id) entries, which is also the count on its   *)
(* "0 <table_length>" line; entry 0 is the free sentinel; and the entry    *)
(* at position k of every used identifier k is an in-use entry whose       *)
(* offset is where the text "<k> 0 obj" begins in the buffer.              *)
(***************************************************************************)
C2_XrefTableOfDistinctIds ==
    (Ended /\ DistinctIds) =>
        LET t == EndOutput
        IN  /\ EntriesOk(t)
            /\ EntryCount(t) = 1 + MaxUsed
            /\ XrefCount(t) = 1 + MaxUsed
            /\ Entry(t, 0) = S_free
            /\ \A k \in UsedIds :
                  LET e == Entry(t, k)
                  IN  /\ IsInUse(e)
                      /\ At(buf, EntryOffset(e), ObjHeader(k))
                      /\ EntryOffset(e) < XrefPos
                      /\ EntryOffset(e) = 0 \/ buf[EntryOffset(e)] = "\n"

\* Two distinct identifiers with an unused one between them, after a header.
C2_Witness ==
    /\ Ended /\ DistinctIds
    /\ Cardinality(UsedIds) >= 2
    /\ \E k \in 1 .. MaxUsed : k \notin UsedIds
    /\ \A i \in 1 .. Len(last.pre.offsets) : last.pre.offsets[i][2] > 0

(***************************************************************************)
(* C3: in the table written by end(), every identifier k with              *)
(* 1 <= k < max(id) that was never opened has the free entry               *)
(* "0000000000 65535 f" at position k, and no used identifier has a free   *)
(* entry at its position.                                                  *)
(***************************************************************************)
FreeExactlyAtUnused(t) ==
    /\ EntriesOk(t)
    /\ \A k \in 1 .. MaxUsed - 1 : k \notin UsedIds => Entry(t, k) = S_free
    /\ \A k \in UsedIds : Entry(t, k) # S_free

\* As claimed, for every table.
C3_FreeEntriesOfAnyTable == Ended => FreeExactlyAtUnused(EndOutput)

\* As amended: for the tables of distinct identifiers.
C3_FreeEntriesOfDistinctIds ==
    (Ended /\ DistinctIds) => FreeExactlyAtUnused(EndOutput)

C3_Witness ==
    /\ Ended /\ DistinctIds
    /\ Cardinality(UsedIds) >= 2
    /\ \E k \in 1 .. MaxUsed - 1 : k \notin UsedIds /\ Entry(EndOutput, k) = S_free

(***************************************************************************)
(* C4: obj(id) called while the depth is not 0 fails before any byte is    *)
(* appended: the call leaves the buffer, the offset table and the depth    *)
(* as they were.                                                           *)
(***************************************************************************)
C4_ObjWhileOpenChangesNothing ==
    [][(last'.op = "obj" /\ ops' = ops + 1 /\ depth # 0) =>
          /\ status' = "panicked"
          /\ ~last'.ok
          /\ UNCHANGED <<buf, offsets, depth, stack>>]_vars

\* An obj() has failed on a writer that holds bytes and an offset.
C4_Witness ==
    /\ status = "panicked" /\ last.op = "obj"
    /\ buf # <<>> /\ offsets # <<>> /\ depth # 0

(***************************************************************************)
(* C5: end(root) called while an indirect object is still open (the depth  *)
(* is not 0) fails at once: no byte of a table or trailer is appended and  *)
(* the offset table is left as it was.                                     *)
(***************************************************************************)
C5_EndWhileOpenChangesNothing ==
    [][(last'.op = "end" /\ ops' = ops + 1 /\ depth # 0) =>
          /\ status' = "panicked"
          /\ ~last'.ok
          /\ UNCHANGED <<buf, offsets, depth, stack>>]_vars

C5_Witness ==
    /\ status = "panicked" /\ last.op = "end"
    /\ buf # <<>> /\ offsets # <<>> /\ depth # 0

(***************************************************************************)
(* C6: the trailer written by end(root) is the line "trailer", a           *)
(* dictionary with the two keys Size and Root in that order, the line      *)
(* "startxref", a number and the line "%%EOF", which ends the output.      *)
(* Size is the table length written in the table, 1 + max(id); Root is     *)
(* "<root> 0 R"; the number after "startxref" is the buffer length at the  *)
(* moment the "xref" keyword was written.                                  *)
(***************************************************************************)
C6_Trailer ==
    Ended =>
        LET t == EndOutput
        IN  /\ TrailerOk(t)
            /\ TrailerSize(t) = XrefCount(t)
            /\ TrailerSize(t) = 1 + MaxUsed
            /\ TrailerRoot(t) = last.arg
            /\ TrailerStartxref(t) = last.pre.len
            /\ At(buf, TrailerStartxref(t), S_xref \o NL)

\* A trailer after two objects, with a root that is not the table length.
C6_Witness ==
    /\ Ended
    /\ Len(last.pre.offsets) >= 2
    /\ last.arg # 1 + MaxUsed
    /\ last.pre.len > 0

(***************************************************************************)
(* C7: when end(root) is called on a writer on which no indirect object    *)
(* was ever opened, the table has exactly one entry, the free sentinel of  *)
(* identifier 0, its count line is "0 1", and the trailer has Size = 1.    *)
(***************************************************************************)
NoObjectOpened == Occurrences(buf, S_obj \o NL, 0) = {}

C7_EmptyDocument ==
    (Ended /\ NoObjectOpened) =>
        LET t == EndOutput
        IN  /\ EntriesOk(t)
            /\ EntryCount(t) = 1
            /\ Entry(t, 0) = S_free
            /\ t.countLine = <<"0", " ", "1">>
            /\ TrailerOk(t)
            /\ TrailerSize(t) = 1

\* An empty document with its header and an indent.
C7_Witness ==
    /\ Ended /\ NoObjectOpened
    /\ last.pre.len > 0
    /\ indent > 0

(***************************************************************************)
(* C8: every operation only appends: the buffer before it is a prefix of   *)
(* the buffer after it, and every offset recorded in the offset table      *)
(* keeps pointing at the same bytes.                                       *)
(***************************************************************************)
C8_AppendOnly ==
    [][/\ IsPrefix(buf, buf')
       /\ \A i \in 1 .. Len(offsets) :
             LET off == offsets[i][2]
             IN  /\ off <= Len(buf)
                 /\ Len(buf) <= Len(buf')
                 /\ SubSeq(buf', off + 1, Len(buf)) = SubSeq(buf, off + 1, Len(buf))
                 /\ At(buf', off, ObjHeader(offsets[i][1]))]_vars

\* A dictionary has been closed after an earlier object was recorded.
C8_Witness ==
    /\ last.op = "drop_dict"
    /\ Len(last.pre.offsets) >= 2
    /\ Len(buf) > last.pre.len

(***************************************************************************)
(* C9: at most one indirect object is in progress at any time: in the      *)
(* buffer the "<id> 0 obj" headers and the "endobj" markers alternate,     *)
(* starting with a header, and the depth is 0 at every obj() and end()     *)
(* call that is accepted.                                                  *)
(***************************************************************************)
Headers == Occurrences(buf, S_gen0 \o S_obj \o NL, 0)
EndObjs == Occurrences(buf, S_endobj \o NL, 0)

Alternate(H, E) ==
    /\ \A h \in H :
          Cardinality({x \in H : x < h}) = Cardinality({e \in E : e < h})
    /\ \A e \in E :
          Cardinality({h \in H : h < e}) = Cardinality({x \in E : x < e}) + 1

C9_OneObjectInProgress ==
    /\ Alternate(Headers, EndObjs)
    /\ (last.op \in {"obj", "end"} /\ last.ok) => last.pre.depth = 0

\* Two objects opened and closed, and a third call accepted after them.
C9_Witness ==
    /\ Cardinality(Headers) >= 2
    /\ Cardinality(EndObjs) >= 2
    /\ last.op = "end" /\ last.ok

(***************************************************************************)
(* C10: every opened composite is closed in the correct textual form:      *)
(* the "[" and "<<" of the buffer that have no closer yet are exactly      *)
(* those of the arrays and dictionaries still alive, in the order they     *)
(* were opened, every closer closes the innermost open one, and the        *)
(* writers alive all come to their end; so each "[" gets its "]" and each  *)
(* "<<" its ">>", well nested, and with no array or dictionary alive the   *)
(* brackets of the buffer are balanced.                                    *)
(***************************************************************************)
BracketChars == {"[", "]", "<", ">"}
Unbalanced == <<"unbalanced">>

\* The composites left open by the brackets of b at the positions P, read
\* in order with st open before them.
RECURSIVE OpenAfter(_, _, _)
OpenAfter(b, P, st) ==
    IF P = {} THEN st
    ELSE LET i == CHOOSE x \in P : \A y \in P : x <= y
             c == b[i]
             top == IF st = <<>> THEN "none" ELSE st[Len(st)]
             pop == SubSeq(st, 1, Len(st) - 1)
         IN  CASE c = "[" -> OpenAfter(b, P \ {i}, Append(st, "Array"))
               [] c = "]" -> IF top = "Array" THEN OpenAfter(b, P \ {i}, pop)
                             ELSE Unbalanced
               [] c = "<" -> IF i + 1 \in P /\ b[i + 1] = "<"
                             THEN OpenAfter(b, P \ {i, i + 1}, Append(st, "Dict"))
                             ELSE Unbalanced
               [] c = ">" -> IF i + 1 \in P /\ b[i + 1] = ">" /\ top = "Dict"
                             THEN OpenAfter(b, P \ {i, i + 1}, pop)
                             ELSE Unbalanced

OpenBrackets ==
    OpenAfter(buf, {i \in 1 .. Len(buf) : buf[i] \in BracketChars}, <<>>)

\* The arrays and dictionaries alive, outermost first.
RECURSIVE Composites(_)
Composites(s) ==
    IF s = <<>> THEN <<>>
    ELSE (IF s[1].kind = "Object" THEN <<>> ELSE <<s[1].kind>>)
         \o Composites(Tail(s))

C10_CompositesClosed ==
    /\ [](OpenBrackets = Composites(stack))
    /\ (stack # <<>>) ~> (stack = <<>>)

\* A dictionary inside an array, both closed.
C10_Witness ==
    /\ stack = <<>>
    /\ last.op = "drop_array"
    /\ Occurrences(buf, <<"[", "<", "<">>, 0) # {}
    /\ OpenBrackets = <<>>

(***************************************************************************)
(* C11: Array::len() is the number of item() calls made so far on the      *)
(* array, whatever was or was not written into the item slots; item()      *)
(* writes one separating space before every item except the first, so an   *)
(* array of n >= 1 items holds n - 1 separators; and the Count that        *)
(* Pages::kids writes is the number of kids it wrote.                      *)
(***************************************************************************)
CountChar(s, c) == Cardinality({i \in 1 .. Len(s) : s[i] = c})

\* The text the last operation appended.
Appended == SubSeq(buf, last.pre.len + 1, Len(buf))

\* What kids() appended: a line break, the line of Kids, the line of Count.
KidsOutput ==
    LET lines == LinesFrom(buf, last.pre.len + 1)
        kidsLead == Repeat(SP, indent * last.pre.depth) \o S_slash \o K_Kids \o SP
        countLead == Repeat(SP, indent * last.pre.depth) \o S_slash \o K_Count \o SP
    IN  [ok |-> /\ At(buf, last.pre.len, NL)
                /\ Len(lines) = 2
                /\ IsPrefix(kidsLead \o S_aopen, lines[1])
                /\ lines[1][Len(lines[1])] = "]"
                /\ NumberLine(lines[2], countLead, <<>>),
         kids |-> IF Len(lines) = 2 THEN CountChar(lines[1], "R") ELSE 0,
         count |-> IF Len(lines) = 2 THEN NumberOf(lines[2], countLead, <<>>) ELSE 0]

C11_ArrayLenCountsItems ==
    /\ \A i \in 1 .. Len(stack) :
          stack[i].kind = "Array" => stack[i].len = stack[i].calls
    /\ last.op = "item" =>
          Appended = (IF last.arg = 1 THEN <<>> ELSE SP)
    /\ (last.op = "rect" /\ ~last.indirect) =>
          CountChar(Appended, " ") = 3
    /\ last.op = "pages_kids" =>
          LET k == KidsOutput
          IN  k.ok /\ k.count = k.kids /\ k.kids = last.arg

\* A third item after two slots of which one was left unfilled, and a page
\* tree of two kids.
C11_Witness ==
    \/ /\ last.op = "item" /\ last.arg = 3
       /\ Occurrences(buf, <<"[", " ">>, 0) # {}
    \/ last.op = "pages_kids" /\ last.arg = 2

(***************************************************************************)
(* C12: Ref::new(id) fails for every id <= 0 and for every id >= 1 returns *)
(* a Ref whose get() is id, so every identifier that reaches obj(), end()  *)
(* or a reference write is strictly positive.                              *)
(***************************************************************************)
C12_RefIsPositive ==
    /\ \A id \in RawIds :
          LET r == Ref_new(id)
          IN  /\ id <= 0 => ~r.ok
              /\ id >= 1 => r.ok /\ Ref_get(r.ref) = id
    /\ last.op = "ref_new" => last.arg <= 0 /\ Len(buf) = last.pre.len
    /\ last.op \in {"obj", "end", "id"} => last.arg >= 1
    /\ \A i \in 1 .. Len(offsets) : offsets[i][1] >= 1
    /\ Occurrences(buf, <<"-">>, 0) = {}

\* Both outcomes: a reference written into an object, then a call with a
\* negative integer that fails.
C12_Witness ==
    /\ last.op = "ref_new"
    /\ last.arg < 0
    /\ Occurrences(buf, S_R, 0) # {}

(***************************************************************************)
(* C13: the table does not depend on the order in which the objects were   *)
(* opened: for distinct identifiers opened in any order, the in-use        *)
(* entries stand in ascending identifier order, the entry at position k    *)
(* describing identifier k with the offset recorded for k, not the offset  *)
(* of the k-th object opened.                                              *)
(***************************************************************************)
\* The positions of the in-use entries of the table, as a set.
InUsePositions(t) == {k \in 0 .. EntryCount(t) - 1 : IsInUse(Entry(t, k))}

C13_TableIndependentOfOrder ==
    (Ended /\ DistinctIds) =>
        LET t == EndOutput
            recorded == last.pre.offsets
        IN  /\ EntriesOk(t)
            /\ InUsePositions(t) = UsedIds
            /\ \A i \in 1 .. Len(recorded) :
                  EntryOffset(Entry(t, recorded[i][1])) = recorded[i][2]

\* Three objects opened in descending identifier order: no entry k carries
\* the offset of the k-th object opened but the middle one.
C13_Witness ==
    /\ Ended /\ DistinctIds
    /\ Len(last.pre.offsets) = 3
    /\ last.pre.offsets[1][1] > last.pre.offsets[2][1]
    /\ last.pre.offsets[2][1] > last.pre.offsets[3][1]
    /\ EntryOffset(Entry(EndOutput, 1)) = last.pre.offsets[3][2]

(***************************************************************************)
(* C14: "endobj" is written exactly once per indirect object whose content *)
(* is an array or a dictionary, and only by the close of the composite     *)
(* that came directly from obj()'s slot: the close of a nested array or    *)
(* dictionary writes no "endobj" and leaves the indirect object open, so   *)
(* "endobj" comes only after all nested composites are closed.             *)
(***************************************************************************)
\* The "endobj" the last operation appended.
NewEndObjs == Occurrences(buf, S_endobj, last.pre.len)

\* The operations that close a composite (rect opens and closes its array).
CompositeClosingOps == {"rect", "drop_array", "drop_dict"}

\* The header at h opens an object whose content is an array or dictionary.
CompositeContent(h) ==
    LET c == h + Len(S_gen0 \o S_obj \o NL)
    IN  At(buf, c, S_aopen) \/ At(buf, c, S_dopen)

\* The "endobj" between the header at h and the next header.
EndObjsOf(h) ==
    {e \in EndObjs : e > h /\ \A x \in Headers : x > h => e < x}

C14_EndobjOnlyByOutermostClose ==
    /\ last.op \in CompositeClosingOps =>
          IF stack = <<>>
          THEN /\ NewEndObjs = {Len(buf) - Len(S_endobj \o NL \o NL)}
               /\ depth = 0
               /\ OpenBrackets = <<>>
          ELSE /\ NewEndObjs = {}
               /\ depth >= 1
    /\ last.op \notin CompositeClosingOps => NewEndObjs = {}
    /\ \A h \in Headers :
          CompositeContent(h) =>
              Cardinality(EndObjsOf(h)) =
                  (IF stack # <<>> /\ h = Max(Headers) THEN 0 ELSE 1)

\* An indirect array closed after a dictionary or array nested in it was.
C14_Witness ==
    /\ stack = <<>>
    /\ last.op = "drop_array"
    /\ NewEndObjs # {}
    /\ \/ Occurrences(buf, <<">", ">", "\n", "]">>, 0) # {}
       \/ Occurrences(buf, <<"]", "]">>, 0) # {}

(***************************************************************************)
(* C15: opening a dictionary raises the nesting depth by exactly one and   *)
(* closing it lowers it by exactly one; a dictionary opened at depth d     *)
(* writes "<<" and ">>" both after indent * d spaces and each of its keys  *)
(* after indent * (d + 1) spaces; a line break is written before ">>"      *)
(* only if at least one key was written; and the depth never goes below 0. *)
(* As stated, the depth after a dictionary's scope ends is the depth just  *)
(* before the dictionary was opened.                                       *)
(***************************************************************************)
Spaces(n) == [i \in 1 .. n |-> " "]

\* What the open, the keys and the close of a dictionary write, and the
\* depth while it is alive; last.self is the slot or the dictionary.
DictLayout ==
    /\ last.op = "dict" =>
          /\ depth = last.pre.depth + 1
          /\ Appended = Spaces(indent * last.pre.depth) \o S_dopen \o NL
    /\ last.op = "key" =>
          /\ depth = last.self.d + 1
          /\ \E k \in Keys :
                Appended = (IF last.self.calls # 0 THEN NL ELSE <<>>)
                           \o Spaces(indent * (last.self.d + 1))
                           \o S_slash \o k \o SP
    /\ last.op = "drop_dict" =>
          /\ last.pre.depth = last.self.d + 1
          /\ IsPrefix((IF last.self.calls # 0 THEN NL ELSE <<>>)
                      \o Spaces(indent * last.self.d) \o S_dclose \o NL,
                      Appended)
    /\ depth >= 0

C15_DictDepthRestored ==
    /\ DictLayout
    /\ last.op = "drop_dict" => depth = last.self.d

\* Amended: the close of a dictionary that is the direct content of an
\* indirect object also closes that object, which lowers the depth once
\* more.
C15_DictDepthAndLayout ==
    /\ DictLayout
    /\ last.op = "drop_dict" =>
          depth = (IF last.self.indirect THEN last.self.d - 1 ELSE last.self.d)

\* A dictionary of one key closed inside another dictionary, indented.
C15_Witness ==
    /\ last.op = "drop_dict"
    /\ last.self.d >= 2
    /\ last.self.calls >= 1
    /\ indent > 0

(***************************************************************************)
(* C16: arrays never change the nesting depth: opening an array, item()    *)
(* and primitive items leave the depth as it is, and the only change of    *)
(* depth at an array's close is the close of the indirect object whose     *)
(* direct content the array is; the array itself writes no indentation     *)
(* and no line break between "[" and "]".                                  *)
(***************************************************************************)
PrimitiveOps == {"bool", "int", "real", "name", "id"}

C16_ArraysKeepDepth ==
    /\ last.op = "array" =>
          /\ depth = last.pre.depth
          /\ Appended = S_aopen
    /\ last.op = "item" =>
          /\ depth = last.pre.depth
          /\ Appended \in {<<>>, SP}
    /\ (last.op \in PrimitiveOps /\ TopIs("Array")) =>
          /\ depth = last.pre.depth
          /\ CountChar(Appended, "\n") = 0
    /\ last.op = "rect" =>
          /\ depth = last.pre.depth - (IF last.indirect THEN 1 ELSE 0)
          /\ Appended[1] = "["
          /\ \A i \in 1 .. Len(Appended) :
                Appended[i] = "]" =>
                    /\ CountChar(SubSeq(Appended, 1, i), "\n") = 0
                    /\ CountChar(SubSeq(Appended, 1, i), " ") = 3
    /\ last.op = "drop_array" =>
          IF last.self.indirect
          THEN /\ depth = last.pre.depth - 1
               /\ Appended = S_aclose \o S_endobj \o NL \o NL
          ELSE /\ depth = last.pre.depth
               /\ Appended = S_aclose

\* With an indent set, an array of two items, the first one primitive,
\* closed at depth 1 or deeper.
C16_Witness ==
    /\ last.op = "drop_array"
    /\ last.self.calls >= 2
    /\ indent > 0
    /\ Occurrences(buf, <<"[", "-">>, 0) # {}

(***************************************************************************)
(* C17: when an identifier is opened twice with obj(), both (identifier,   *)
(* offset) pairs are recorded, and end() writes one in-use entry for each  *)
(* of them, in ascending offset order, without failing; the table then     *)
(* has more entry lines than the length 1 + max(id) on its count line and  *)
(* in the trailer's Size.                                                  *)
(***************************************************************************)
\* The identifier recorded with the offset o.
IdAt(recorded, o) ==
    recorded[CHOOSE i \in 1 .. Len(recorded) : recorded[i][2] = o][1]

C17_DuplicateIdentifiers ==
    /\ (last.op = "obj" /\ last.ok) =>
          offsets = Append(last.pre.offsets, <<last.arg, last.pre.len>>)
    /\ (last.op = "end" /\ last.pre.depth = 0) => last.ok
    /\ (Ended /\ ~DistinctIds) =>
          LET t == EndOutput
              recorded == last.pre.offsets
              P == InUsePositions(t)
              Off(k) == EntryOffset(Entry(t, k))
          IN  /\ TrailerOk(t)
              /\ Cardinality(P) = Len(recorded)
              /\ {Off(k) : k \in P} = {recorded[i][2] : i \in 1 .. Len(recorded)}
              /\ \A p, q \in P :
                    p < q =>
                        \/ IdAt(recorded, Off(p)) < IdAt(recorded, Off(q))
                        \/ /\ IdAt(recorded, Off(p)) = IdAt(recorded, Off(q))
                           /\ Off(p) < Off(q)
              /\ XrefCount(t) = 1 + MaxUsed
              /\ TrailerSize(t) = 1 + MaxUsed
              /\ EntryCount(t) > XrefCount(t)

\* An identifier opened twice with another one opened between the two.
C17_Witness ==
    /\ Ended
    /\ Len(last.pre.offsets) = 3
    /\ last.pre.offsets[1][1] = last.pre.offsets[3][1]
    /\ last.pre.offsets[1][1] > last.pre.offsets[2][1]

(***************************************************************************)
(* C18: a value slot dropped without a fill appends no bytes and raises    *)
(* no error: buffer, offset table and depth are what they were when the    *)
(* slot was handed out; a key slot leaves the key with no value, and an    *)
(* item slot still counts as an item of its array.                         *)
(***************************************************************************)
\* The operations that hand out a value slot.
SlotOps == {"obj", "item", "key"}

C18_UnfilledSlotWritesNothing ==
    /\ (last.op \in SlotOps /\ last.ok) =>
          /\ TopIs("Object")
          /\ ENABLED DropObject
    /\ last.op = "drop_object" =>
          /\ last.self.kind = "Object"
          /\ Appended = <<>>
          /\ offsets = last.pre.offsets
          /\ depth = last.pre.depth
          /\ status = "running"
          /\ TopIs("Dict") =>
                \E k \in Keys : EndsWith(buf, S_slash \o k \o SP)
          /\ TopIs("Array") =>
                /\ Top.len = Top.calls
                /\ Top.len >= 1
                /\ buf[Len(buf)] \in {"[", " "}

\* A key slot dropped unfilled in a dictionary that is the second item of
\* an array whose first item slot was dropped unfilled too.
C18_Witness ==
    /\ last.op = "drop_object"
    /\ TopIs("Dict")
    /\ Occurrences(buf, <<"[", " ", "<", "<">>, 0) # {}

(***************************************************************************)
(* C19: for every identifier of 1 ..= i32::MAX, end() computes the table   *)
(* length as the mathematical value 1 + max(id): the i32 computations      *)
(* `1 + max(id)` and `next = id + 1` never overflow or wrap, the largest   *)
(* identifier being i32::MAX included.                                     *)
(***************************************************************************)
\* The steps of end() that add one to an identifier, and the identifier:
\* the largest of the offset table, or the one whose entry was written.
AddingOps == {"xref_len", "xref_next"}
Operand ==
    IF last.op = "xref_len" THEN Max({0} \cup UsedIds) ELSE last.arg

C19_TableLengthNeverOverflows ==
    last.op \in AddingOps =>
        /\ last.ok
        /\ last.xref_len > Operand
        /\ last.xref_len - Operand = 1

\* The same for identifiers below i32::MAX, where it holds.
C19_TableLengthBelowMax ==
    (last.op \in AddingOps /\ Operand < I32Max) =>
        /\ last.ok
        /\ last.xref_len = 1 + Operand

\* The two outcomes at i32::MAX: the panic, and the table length i32::MIN
\* on the count line.
C19_Panics == last.op = "xref_len" /\ ~last.ok /\ build = "debug"
C19_Wraps ==
    /\ last.op = "xref_len" /\ last.ok /\ build = "release"
    /\ last.xref_len = I32Min
    /\ EndsWith(buf, S_zero_sp \o <<"-">> \o DisplayNat(I32Max \div 10)
                     \o <<"8">> \o NL \o S_free)

(***************************************************************************)
(* C20: end() consumes the offset table: after a successful end() the      *)
(* offset table is empty and the depth is 0, so a second end() with no     *)
(* indirect object opened in between writes a table of one entry with      *)
(* Size = 1, and the table of any later end() lists only the indirect      *)
(* objects opened since the previous end().                                *)
(***************************************************************************)
\* Where the output of the previous end() stops: after the last "%%EOF"
\* line before this table, or 0.
PrevEnd ==
    Max({0} \cup {e + Len(S_eof \o NL) : e \in Occurrences(buf, S_eof, 0) \cap
                                              (0 .. XrefPos - 1)})

\* The object headers of the buffer from offset a up to offset b.
HeadersIn(a, b) == {h \in Headers : a <= h /\ h < b}

C20_EndConsumesOffsets ==
    Ended =>
        LET t == EndOutput
            P == InUsePositions(t)
            since == HeadersIn(PrevEnd, XrefPos)
        IN  /\ offsets = <<>>
            /\ depth = 0
            /\ TrailerOk(t)
            /\ Cardinality(P) = Cardinality(since)
            /\ \A k \in P :
                  /\ EntryOffset(Entry(t, k)) >= PrevEnd
                  /\ \E id \in Ids : At(buf, EntryOffset(Entry(t, k)), ObjHeader(id))
            /\ since = {} =>
                  /\ EntryCount(t) = 1
                  /\ t.countLine = <<"0", " ", "1">>
                  /\ TrailerSize(t) = 1

\* A second end() after an object opened since the first, which had an
\* object of a larger identifier before it.
C20_Witness ==
    /\ Ended
    /\ PrevEnd > 0
    /\ HeadersIn(PrevEnd, XrefPos) # {}
    /\ \E k \in Ids : k > MaxUsed /\ At(buf, 0, ObjHeader(k))

\* A second end() with no object opened since the first.
C20_SecondEndOfNothing ==
    /\ Ended
    /\ PrevEnd > 0
    /\ HeadersIn(0, PrevEnd) # {}
    /\ HeadersIn(PrevEnd, XrefPos) = {}

====
